---- MODULE Spec2Model ----
(***************************************************************************)
(* A model of the proxy validation and request-dispatch engine of jeet:    *)
(* the validator goroutines (worker), the dispatcher lanes (thread and     *)
(* threadIndefinitely), createProxyClient with its shared client channel,  *)
(* testProxy, sendRequest, the stats reporter and main's wait on the       *)
(* progress bar.  Every access to shared state (an atomic counter, the     *)
(* sync.Map uniqueIPs, a channel) is one step of the goroutine making it.  *)
(***************************************************************************)
EXTENDS Integers, Sequences, FiniteSets, TLC

(* ---------------------------------------------------------------------- *)
(* Configuration (config.go), scaled down                                  *)
(* ---------------------------------------------------------------------- *)

\* numOfThreads: the lane count L, also the capacity of both channels
numOfThreads == 2

\* numOfRequests: the number of requests of one batch
numOfRequests == 2

\* useProxy
useProxy == TRUE

\* cap on failedProxyConnections, which the code lets grow without bound
MaxProxyFailures == 1

\* cap on the number of threadIndefinitely goroutines main spawns, which the
\* code does not bound (a busy loop of go statements)
MaxLanes == numOfThreads

\* the progress bar's total in bounded mode, and the threshold of thread
Budget == numOfThreads * numOfRequests

\* cap on totalRequests in indefinite mode, where lanes never stop: room for
\* numOfThreads batches, so that a proxy put back is taken and used again
MaxRequests == Budget

Workers == 1 .. numOfThreads
Lanes == 1 .. MaxLanes

(* ---------------------------------------------------------------------- *)
(* The environment: candidate proxies, what they do, the parameters        *)
(* ---------------------------------------------------------------------- *)

\* an address url.Parse rejects: createProxyClient returns an error for it
Malformed == {"bad"}

\* an address whose probe fails (transport error, non-200, body-read error)
Dead == {"dead"}

\* the body the test URL returns through a proxy: its public egress IP
IPOf(p) ==
  CASE p = "a1" -> "ipA"
    [] p = "a2" -> "ipA"
    [] p = "b1" -> "ipB"
    [] p = "c1" -> "ipC"
    [] OTHER -> "none"

\* a parameter with a control character in it: http.NewRequestWithContext
\* fails on the URL built from it
BadParameters == {"he\tight=1"}

\* how a request that was built and sent can end
Outcomes == {"ok", "transportErr", "readErr"}

\* the runs: the candidate list (proxy.txt), the parameter list
\* (parameters.txt), the two mode switches, and how sent requests can end
Run(px, pm, indef, faf, net) ==
  [proxies |-> px, parameters |-> pm, runIndefinitely |-> indef,
   fireAndForget |-> faf, network |-> net]

Runs ==
  { Run({"a1"}, {"height=1", "he\tight=1"}, FALSE, FALSE, Outcomes),
    Run({"a1", "a2"}, {"height=1", "he\tight=1"}, FALSE, TRUE, {"ok"}),
    Run({"a1", "b1"}, {"height=1"}, FALSE, FALSE, {"ok"}),
    Run({"bad", "dead", "a1"}, {"height=1"}, FALSE, TRUE, {"ok"}),
    Run({"a1", "b1"}, {"height=1"}, TRUE, FALSE, {"ok"}),
    Run({"a1"}, {"height=1"}, TRUE, TRUE, {"ok"}) }

\* a client handle is known by the proxy it was built to dial through
NoClient == ""

VARIABLES
  proxies,                     \* the candidate list
  parameters,                  \* the parameter list
  network,                     \* how a sent request can end in this run
  runIndefinitely,             \* config: indefinite mode
  fireAndForget,               \* config: fire-and-forget mode
  uniqueIPs,                   \* the keys of the sync.Map
  proxiesPool,                 \* chan string, capacity numOfThreads
  httpClientPool,              \* chan *http.Client, capacity numOfThreads
  successCount, failureCount, totalRequests, requestPerMinute,
  successfulProxyConnections, failedProxyConnections,
  totalRequestCount,
  bar,                         \* the progress bar's current value
  wpc, wproxy, wclient,        \* worker: position, proxy, client
  tpc, tproxy, tclient,        \* lane: position, proxy, client
  requestCount,                \* lane: requestCount
  summaries, durations, sizes, \* lane: lengths of the three slices
  crossed,                     \* lanes whose add took the total across Budget
  mainpc                       \* main: "check", "go", "wait", "exited"

counters ==
  <<successCount, failureCount, totalRequests, requestPerMinute,
    successfulProxyConnections, failedProxyConnections, totalRequestCount, bar>>
config == <<proxies, parameters, network, runIndefinitely, fireAndForget>>
workerVars == <<wpc, wproxy, wclient>>
laneVars ==
  <<tpc, tproxy, tclient, requestCount, summaries, durations, sizes, crossed>>
vars ==
  <<config, uniqueIPs, proxiesPool, httpClientPool, counters, workerVars,
    laneVars, mainpc>>

Init ==
  /\ \E r \in Runs :
       /\ proxies = r.proxies
       /\ parameters = r.parameters
       /\ network = r.network
       /\ runIndefinitely = r.runIndefinitely
       /\ fireAndForget = r.fireAndForget
  /\ uniqueIPs = {}
  /\ proxiesPool = <<>>
  /\ httpClientPool = <<>>
  /\ successCount = 0
  /\ failureCount = 0
  /\ totalRequests = 0
  /\ requestPerMinute = 0
  /\ successfulProxyConnections = 0
  /\ failedProxyConnections = 0
  /\ totalRequestCount = 0
  /\ bar = 0
  /\ wpc = [w \in Workers |-> "top"]
  /\ wproxy = [w \in Workers |-> ""]
  /\ wclient = [w \in Workers |-> NoClient]
  /\ tpc = [l \in Lanes |-> IF runIndefinitely THEN "unspawned" ELSE "AcquireProxy"]
  /\ tproxy = [l \in Lanes |-> ""]
  /\ tclient = [l \in Lanes |-> NoClient]
  /\ requestCount = [l \in Lanes |-> 0]
  /\ summaries = [l \in Lanes |-> 0]
  /\ durations = [l \in Lanes |-> 0]
  /\ sizes = [l \in Lanes |-> 0]
  /\ crossed = {}
  /\ mainpc = IF runIndefinitely THEN "check" ELSE "wait"

Running == mainpc # "exited"

(* ---------------------------------------------------------------------- *)
(* worker (the validator)                                                  *)
(* ---------------------------------------------------------------------- *)

\* the loop-top check with > for >=: one success too many is awaited
WorkerCheckOffByOne(w) ==
  /\ Running
  /\ wpc[w] = "top"
  /\ wpc' = [wpc EXCEPT ![w] =
               IF successfulProxyConnections > numOfThreads THEN "done" ELSE "pick"]
  /\ UNCHANGED <<config, uniqueIPs, proxiesPool, httpClientPool, counters,
                 wproxy, wclient, laneVars, mainpc>>

\* the loop without its break: the worker searches whatever the count is
WorkerCheckNoBreak(w) ==
  /\ Running
  /\ wpc[w] = "top"
  /\ wpc' = [wpc EXCEPT ![w] = "pick"]
  /\ UNCHANGED <<config, uniqueIPs, proxiesPool, httpClientPool, counters,
                 wproxy, wclient, laneVars, mainpc>>

\* the loop-top check of successfulProxyConnections
WorkerCheck(w) ==
  /\ Running
  /\ wpc[w] = "top"
  /\ IF successfulProxyConnections >= numOfThreads
       THEN wpc' = [wpc EXCEPT ![w] = "done"] /\ UNCHANGED wproxy
       ELSE IF useProxy
         THEN wpc' = [wpc EXCEPT ![w] = "pick"] /\ UNCHANGED wproxy
         ELSE wpc' = [wpc EXCEPT ![w] = "put"] /\ wproxy' = [wproxy EXCEPT ![w] = ""]
  /\ UNCHANGED <<config, uniqueIPs, proxiesPool, httpClientPool, counters,
                 wclient, laneVars, mainpc>>

\* proxy = proxies[rand.Intn(len(proxies))]; uniqueIPs.Load(proxy)
WorkerPick(w) ==
  /\ Running
  /\ wpc[w] = "pick"
  /\ \E p \in proxies :
       /\ wproxy' = [wproxy EXCEPT ![w] = p]
       /\ wpc' = [wpc EXCEPT ![w] = IF p \in uniqueIPs THEN "pick" ELSE "create"]
  /\ UNCHANGED <<config, uniqueIPs, proxiesPool, httpClientPool, counters,
                 wclient, laneVars, mainpc>>

\* createProxyClient, up to the send on httpClientPool: a pooled client is
\* returned as it is; otherwise the address is parsed and a client built
WorkerCreate(w) ==
  /\ Running
  /\ wpc[w] = "create"
  /\ IF httpClientPool # <<>>
       THEN /\ wclient' = [wclient EXCEPT ![w] = Head(httpClientPool)]
            /\ httpClientPool' = Tail(httpClientPool)
            /\ wpc' = [wpc EXCEPT ![w] = "test"]
            /\ UNCHANGED failedProxyConnections
       ELSE IF wproxy[w] \in Malformed
         THEN /\ failedProxyConnections < MaxProxyFailures
              /\ failedProxyConnections' = failedProxyConnections + 1
              /\ wpc' = [wpc EXCEPT ![w] = "pick"]
              /\ UNCHANGED <<wclient, httpClientPool>>
         ELSE /\ wclient' = [wclient EXCEPT ![w] = wproxy[w]]
              /\ wpc' = [wpc EXCEPT ![w] = "stash"]
              /\ UNCHANGED <<httpClientPool, failedProxyConnections>>
  /\ UNCHANGED <<config, uniqueIPs, proxiesPool, successCount, failureCount,
                 totalRequests, requestPerMinute, successfulProxyConnections,
                 totalRequestCount, bar, wproxy, laneVars, mainpc>>

\* createProxyClient: httpClientPool <- client, then return client
WorkerStash(w) ==
  /\ Running
  /\ wpc[w] = "stash"
  /\ Len(httpClientPool) < numOfThreads
  /\ httpClientPool' = Append(httpClientPool, wclient[w])
  /\ wpc' = [wpc EXCEPT ![w] = "test"]
  /\ UNCHANGED <<config, uniqueIPs, proxiesPool, counters, wproxy, wclient,
                 laneVars, mainpc>>

\* testProxy and its caller with a failed probe left uncounted
WorkerProbeUncounted(w) ==
  /\ Running
  /\ wpc[w] = "test"
  /\ IF wclient[w] \in Dead
       THEN /\ wpc' = [wpc EXCEPT ![w] = "pick"]
            /\ wclient' = [wclient EXCEPT ![w] = NoClient]
            /\ UNCHANGED <<uniqueIPs, failedProxyConnections>>
       ELSE /\ uniqueIPs' = uniqueIPs \cup {IPOf(wclient[w])}
            /\ wpc' = [wpc EXCEPT ![w] = "count"]
            /\ UNCHANGED <<failedProxyConnections, wclient>>
  /\ UNCHANGED <<config, proxiesPool, httpClientPool, successCount,
                 failureCount, totalRequests, requestPerMinute,
                 successfulProxyConnections, totalRequestCount, bar, wproxy,
                 laneVars, mainpc>>

\* testProxy(client): the probe goes through the proxy the client was built
\* for; on success the body is stored in uniqueIPs
WorkerProbe(w) ==
  /\ Running
  /\ wpc[w] = "test"
  /\ IF wclient[w] \in Dead
       THEN /\ failedProxyConnections < MaxProxyFailures
            /\ failedProxyConnections' = failedProxyConnections + 1
            /\ wpc' = [wpc EXCEPT ![w] = "pick"]
            /\ wclient' = [wclient EXCEPT ![w] = NoClient]
            /\ UNCHANGED uniqueIPs
       ELSE /\ uniqueIPs' = uniqueIPs \cup {IPOf(wclient[w])}
            /\ wpc' = [wpc EXCEPT ![w] = "count"]
            /\ UNCHANGED <<failedProxyConnections, wclient>>
  /\ UNCHANGED <<config, proxiesPool, httpClientPool, successCount,
                 failureCount, totalRequests, requestPerMinute,
                 successfulProxyConnections, totalRequestCount, bar, wproxy,
                 laneVars, mainpc>>

\* atomic.AddInt32(&successfulProxyConnections, 1)
WorkerCount(w) ==
  /\ Running
  /\ wpc[w] = "count"
  /\ successfulProxyConnections' = successfulProxyConnections + 1
  /\ wpc' = [wpc EXCEPT ![w] = "store"]
  /\ UNCHANGED <<config, uniqueIPs, proxiesPool, httpClientPool, successCount,
                 failureCount, totalRequests, requestPerMinute,
                 failedProxyConnections, totalRequestCount, bar, wproxy,
                 wclient, laneVars, mainpc>>

\* uniqueIPs.Store(proxy, true); break (client goes out of scope)
WorkerStore(w) ==
  /\ Running
  /\ wpc[w] = "store"
  /\ uniqueIPs' = uniqueIPs \cup {wproxy[w]}
  /\ wpc' = [wpc EXCEPT ![w] = "put"]
  /\ wclient' = [wclient EXCEPT ![w] = NoClient]
  /\ UNCHANGED <<config, proxiesPool, httpClientPool, counters, wproxy,
                 laneVars, mainpc>>

\* the Put followed by the next search at once, the counter not read again
WorkerPutNoRecheck(w) ==
  /\ Running
  /\ wpc[w] = "put"
  /\ Len(proxiesPool) < numOfThreads
  /\ proxiesPool' = Append(proxiesPool, wproxy[w])
  /\ wpc' = [wpc EXCEPT ![w] = "pick"]
  /\ wproxy' = [wproxy EXCEPT ![w] = ""]
  /\ UNCHANGED <<config, uniqueIPs, httpClientPool, counters, wclient,
                 laneVars, mainpc>>

\* proxiesPool <- proxy, the end of one turn of the outer loop (proxy is
\* declared anew in the next)
WorkerPut(w) ==
  /\ Running
  /\ wpc[w] = "put"
  /\ Len(proxiesPool) < numOfThreads
  /\ proxiesPool' = Append(proxiesPool, wproxy[w])
  /\ wpc' = [wpc EXCEPT ![w] = "top"]
  /\ wproxy' = [wproxy EXCEPT ![w] = ""]
  /\ UNCHANGED <<config, uniqueIPs, httpClientPool, counters, wclient,
                 laneVars, mainpc>>

(* ---------------------------------------------------------------------- *)
(* thread and threadIndefinitely (the dispatcher lanes)                    *)
(* ---------------------------------------------------------------------- *)

\* the locals of one iteration of the lane's loop, gone when it ends
LaneLocalsReset(l) ==
  /\ tproxy' = [tproxy EXCEPT ![l] = ""]
  /\ tclient' = [tclient EXCEPT ![l] = NoClient]
  /\ requestCount' = [requestCount EXCEPT ![l] = 0]
  /\ summaries' = [summaries EXCEPT ![l] = 0]
  /\ durations' = [durations EXCEPT ![l] = 0]
  /\ sizes' = [sizes EXCEPT ![l] = 0]

\* proxy := <-proxiesPool
LaneAcquire(l) ==
  /\ Running
  /\ tpc[l] = "AcquireProxy"
  /\ proxiesPool # <<>>
  /\ tproxy' = [tproxy EXCEPT ![l] = Head(proxiesPool)]
  /\ proxiesPool' = Tail(proxiesPool)
  /\ tpc' = [tpc EXCEPT ![l] = "GetClient"]
  /\ UNCHANGED <<config, uniqueIPs, httpClientPool, counters, workerVars,
                 tclient, requestCount, summaries, durations, sizes, crossed,
                 mainpc>>

\* createProxyClient with a proxy-affinity check on the pooled client: the
\* pooled client is returned only if it was built for the lane's proxy
LaneGetClientAffinity(l) ==
  /\ Running
  /\ tpc[l] = "GetClient"
  /\ IF httpClientPool # <<>> /\ Head(httpClientPool) = tproxy[l]
       THEN /\ tclient' = [tclient EXCEPT ![l] = Head(httpClientPool)]
            /\ httpClientPool' = Tail(httpClientPool)
            /\ tpc' = [tpc EXCEPT ![l] = "SendBatch"]
            /\ UNCHANGED tproxy
       ELSE IF tproxy[l] \in Malformed
         THEN /\ tpc' = [tpc EXCEPT ![l] = "AcquireProxy"]
              /\ tproxy' = [tproxy EXCEPT ![l] = ""]
              /\ UNCHANGED <<tclient, httpClientPool>>
         ELSE /\ tclient' = [tclient EXCEPT ![l] = tproxy[l]]
              /\ tpc' = [tpc EXCEPT ![l] = "Stash"]
              /\ UNCHANGED <<tproxy, httpClientPool>>
  /\ UNCHANGED <<config, uniqueIPs, proxiesPool, counters, workerVars,
                 requestCount, summaries, durations, sizes, crossed, mainpc>>

\* createProxyClient(proxy), up to the send on httpClientPool; on an error
\* the lane logs and continues with the next proxy
LaneGetClient(l) ==
  /\ Running
  /\ tpc[l] = "GetClient"
  /\ IF httpClientPool # <<>>
       THEN /\ tclient' = [tclient EXCEPT ![l] = Head(httpClientPool)]
            /\ httpClientPool' = Tail(httpClientPool)
            /\ tpc' = [tpc EXCEPT ![l] = "SendBatch"]
            /\ UNCHANGED tproxy
       ELSE IF tproxy[l] \in Malformed
         THEN /\ tpc' = [tpc EXCEPT ![l] = "AcquireProxy"]
              /\ tproxy' = [tproxy EXCEPT ![l] = ""]
              /\ UNCHANGED <<tclient, httpClientPool>>
         ELSE /\ tclient' = [tclient EXCEPT ![l] = tproxy[l]]
              /\ tpc' = [tpc EXCEPT ![l] = "Stash"]
              /\ UNCHANGED <<tproxy, httpClientPool>>
  /\ UNCHANGED <<config, uniqueIPs, proxiesPool, counters, workerVars,
                 requestCount, summaries, durations, sizes, crossed, mainpc>>

\* createProxyClient: httpClientPool <- client, then return client
LaneStash(l) ==
  /\ Running
  /\ tpc[l] = "Stash"
  /\ Len(httpClientPool) < numOfThreads
  /\ httpClientPool' = Append(httpClientPool, tclient[l])
  /\ tpc' = [tpc EXCEPT ![l] = "SendBatch"]
  /\ UNCHANGED <<config, uniqueIPs, proxiesPool, counters, workerVars, tproxy,
                 tclient, requestCount, summaries, durations, sizes, crossed,
                 mainpc>>

\* onRequest, called at the start of sendRequest
onRequest ==
  /\ totalRequests' = totalRequests + 1
  /\ requestPerMinute' = requestPerMinute + 1

\* sendRequest, for a request with parameter param that ends as outcome
\* when it is sent
sendRequest(l, param, outcome) ==
  /\ onRequest
  /\ IF param \in BadParameters
         THEN \* the request cannot be built
              /\ failureCount' = failureCount + 1
              /\ UNCHANGED <<successCount, bar, summaries, durations, sizes>>
         ELSE IF fireAndForget
           THEN /\ bar' = bar + 1
                /\ UNCHANGED <<successCount, failureCount, summaries, durations, sizes>>
           ELSE IF outcome = "transportErr"
             THEN /\ failureCount' = failureCount + 1
                  /\ bar' = bar + 1
                  /\ UNCHANGED <<successCount, summaries, durations, sizes>>
             ELSE /\ IF outcome = "readErr"
                       THEN failureCount' = failureCount + 1 /\ UNCHANGED sizes
                       ELSE sizes' = [sizes EXCEPT ![l] = @ + 1] /\ UNCHANGED failureCount
                  /\ durations' = [durations EXCEPT ![l] = @ + 1]
                  /\ summaries' = [summaries EXCEPT ![l] = @ + 1]
                  /\ successCount' = successCount + 1
                  /\ bar' = bar + 1

\* the exit test with > for >=: the batch runs one attempt longer
BatchDoneOffByOne(n) == n > numOfRequests

\* the exit of the lane's inner loop
BatchDone(n) == n >= numOfRequests

\* one turn of the lane's inner loop: sendRequest, requestCount++ and the
\* loop's exit test
LaneSend(l) ==
  /\ Running
  /\ tpc[l] = "SendBatch"
  /\ runIndefinitely => totalRequests < MaxRequests
  /\ \E param \in parameters, outcome \in network : sendRequest(l, param, outcome)
  /\ requestCount' = [requestCount EXCEPT ![l] = @ + 1]
  /\ tpc' = [tpc EXCEPT ![l] =
               IF BatchDone(requestCount[l] + 1)
                 THEN (IF runIndefinitely THEN "PutBack" ELSE "AddTotal")
                 ELSE "SendBatch"]
  /\ UNCHANGED <<config, uniqueIPs, proxiesPool, httpClientPool,
                 successfulProxyConnections, failedProxyConnections,
                 totalRequestCount, workerVars, tproxy, tclient, crossed,
                 mainpc>>

\* the test with > for >=: the add that lands on the budget does not stop
ReachedBudgetOffByOne(total) == total > Budget

\* the test thread makes on the result of its atomic add
ReachedBudget(total) == total >= Budget

\* thread with the proxy pushed back onto the pool after the batch, as
\* threadIndefinitely does
LaneAddTotalPutBack(l) ==
  /\ Running
  /\ tpc[l] = "AddTotal"
  /\ Len(proxiesPool) < numOfThreads
  /\ proxiesPool' = Append(proxiesPool, tproxy[l])
  /\ totalRequestCount' = totalRequestCount + requestCount[l]
  /\ tpc' = [tpc EXCEPT ![l] =
               IF ReachedBudget(totalRequestCount') THEN "Terminal" ELSE "AcquireProxy"]
  /\ crossed' = IF totalRequestCount < Budget /\ totalRequestCount' >= Budget
                  THEN crossed \cup {l} ELSE crossed
  /\ LaneLocalsReset(l)
  /\ UNCHANGED <<config, uniqueIPs, httpClientPool, successCount,
                 failureCount, totalRequests, requestPerMinute,
                 successfulProxyConnections, failedProxyConnections, bar,
                 workerVars, mainpc>>

\* thread: atomic.AddInt32(&totalRequestCount, requestCount), then return
\* or loop
LaneAddTotal(l) ==
  /\ Running
  /\ tpc[l] = "AddTotal"
  /\ totalRequestCount' = totalRequestCount + requestCount[l]
  /\ tpc' = [tpc EXCEPT ![l] =
               IF ReachedBudget(totalRequestCount') THEN "Terminal" ELSE "AcquireProxy"]
  /\ crossed' = IF totalRequestCount < Budget /\ totalRequestCount' >= Budget
                  THEN crossed \cup {l} ELSE crossed
  /\ LaneLocalsReset(l)
  /\ UNCHANGED <<config, uniqueIPs, proxiesPool, httpClientPool, successCount,
                 failureCount, totalRequests, requestPerMinute,
                 successfulProxyConnections, failedProxyConnections, bar,
                 workerVars, mainpc>>

\* threadIndefinitely: proxiesPool <- proxy, then loop
LanePutBack(l) ==
  /\ Running
  /\ tpc[l] = "PutBack"
  /\ Len(proxiesPool) < numOfThreads
  /\ proxiesPool' = Append(proxiesPool, tproxy[l])
  /\ tpc' = [tpc EXCEPT ![l] = "AcquireProxy"]
  /\ LaneLocalsReset(l)
  /\ UNCHANGED <<config, uniqueIPs, httpClientPool, counters, workerVars,
                 crossed, mainpc>>

(* ---------------------------------------------------------------------- *)
(* main, startThreadsIndefinitely and printStats                           *)
(* ---------------------------------------------------------------------- *)

\* startThreadsIndefinitely: the test of its spawning loop
MainCheck ==
  /\ mainpc = "check"
  /\ mainpc' = IF successfulProxyConnections >= numOfThreads THEN "wait" ELSE "go"
  /\ UNCHANGED <<config, uniqueIPs, proxiesPool, httpClientPool, counters,
                 workerVars, laneVars>>

\* startThreadsIndefinitely: go threadIndefinitely(bar, proxiesLogger)
MainGo ==
  /\ mainpc = "go"
  /\ \E l \in Lanes :
       /\ tpc[l] = "unspawned"
       /\ \A k \in Lanes : k < l => tpc[k] # "unspawned"
       /\ tpc' = [tpc EXCEPT ![l] = "AcquireProxy"]
  /\ mainpc' = "check"
  /\ UNCHANGED <<config, uniqueIPs, proxiesPool, httpClientPool, counters,
                 workerVars, tproxy, tclient, requestCount, summaries,
                 durations, sizes, crossed>>

\* main: p.Wait() returns once the bar has reached its total, and the
\* process ends; in indefinite mode the total is math.MaxInt64
MainExit ==
  /\ mainpc = "wait"
  /\ ~runIndefinitely
  /\ bar >= Budget
  /\ mainpc' = "exited"
  /\ UNCHANGED <<config, uniqueIPs, proxiesPool, httpClientPool, counters,
                 workerVars, laneVars>>

\* printStats: the one-second tick reads the counters and prints them
TickSecond ==
  /\ mainpc = "wait"
  /\ UNCHANGED vars

\* the one-minute tick resetting the running total along with the
\* per-minute counter
TickMinuteResetsTotal ==
  /\ mainpc = "wait"
  /\ requestPerMinute' = 0
  /\ totalRequests' = 0
  /\ UNCHANGED <<config, uniqueIPs, proxiesPool, httpClientPool, successCount,
                 failureCount, successfulProxyConnections,
                 failedProxyConnections, totalRequestCount, bar, workerVars,
                 laneVars, mainpc>>

\* printStats: the one-minute tick
TickMinute ==
  /\ mainpc = "wait"
  /\ requestPerMinute' = 0
  /\ UNCHANGED <<config, uniqueIPs, proxiesPool, httpClientPool, successCount,
                 failureCount, totalRequests, successfulProxyConnections,
                 failedProxyConnections, totalRequestCount, bar, workerVars,
                 laneVars, mainpc>>

WorkerStep(w) ==
  \/ WorkerCheck(w)
  \/ WorkerPick(w)
  \/ WorkerCreate(w)
  \/ WorkerStash(w)
  \/ WorkerProbe(w)
  \/ WorkerCount(w)
  \/ WorkerStore(w)
  \/ WorkerPut(w)

LaneStep(l) ==
  \/ LaneAcquire(l)
  \/ LaneGetClient(l)
  \/ LaneStash(l)
  \/ LaneSend(l)
  \/ LaneAddTotal(l)
  \/ LanePutBack(l)

\* The engine: validators, lanes and main.  The reporter is left to
\* StatsNext: it writes requestPerMinute alone, which no goroutine reads.
Next ==
  \/ \E w \in Workers : WorkerStep(w)
  \/ \E l \in Lanes : LaneStep(l)
  \/ MainCheck
  \/ MainGo
  \/ MainExit

Spec == Init /\ [][Next]_vars

\* The engine with the reporter, on the runs with a single candidate
StatsInit == Init /\ Cardinality(proxies) = 1

StatsNext ==
  \/ Next
  \/ TickSecond
  \/ TickMinute

SpecStats == StatsInit /\ [][StatsNext]_vars

(* ---------------------------------------------------------------------- *)
(* Fair scheduling: the Go scheduler runs every runnable goroutine, so a   *)
(* step of a goroutine that stays enabled is eventually taken              *)
(* ---------------------------------------------------------------------- *)

MainStep == MainCheck \/ MainGo \/ MainExit

Fairness ==
  /\ \A w \in Workers : WF_vars(WorkerStep(w))
  /\ \A l \in Lanes : WF_vars(LaneStep(l))
  /\ WF_vars(MainStep)

\* the runs with two working candidates of distinct egress IPs, one bounded
\* and one indefinite
FairInit == Init /\ proxies = {"a1", "b1"}

FairSpec == FairInit /\ [][Next]_vars /\ Fairness

(* ---------------------------------------------------------------------- *)
(* Properties                                                              *)
(* ---------------------------------------------------------------------- *)

AllLanesTerminal == \A l \in Lanes : tpc[l] = "Terminal"

\* the number of entries of a sequence that equal x
CountIn(seq, x) == Cardinality({i \in 1 .. Len(seq) : seq[i] = x})

\* the lanes holding proxy p (taken from the pool, not yet dropped or put back)
LanesHolding(p) == {l \in Lanes : tproxy[l] = p}

\* the validators that passed the probe with candidate p and have it in hand
\* (about to count it, store it or put it)
WorkersHolding(p) == {w \in Workers : wpc[w] \in {"count", "store", "put"} /\ wproxy[w] = p}

\* the proxies in flight: buffered in the pool, held by a lane, or about to
\* be put by a validator
InFlight ==
  Len(proxiesPool)
    + Cardinality({l \in Lanes : tproxy[l] # ""})
    + Cardinality({w \in Workers : wpc[w] = "put"})

\* C1: in bounded mode, once every lane has returned, the requests issued
\* (totalRequestCount, and the number of sendRequest calls, which onRequest
\* counts in totalRequests) are exactly numOfThreads * numOfRequests.
C1_ExactBudget ==
  (~runIndefinitely /\ AllLanesTerminal) =>
    (totalRequestCount = Budget /\ totalRequests = Budget)

\* C2: the number of proxies in flight (in the pool, held by a lane, about
\* to be put) never exceeds numOfThreads.
C2_InFlightBound == InFlight <= numOfThreads

\* C3: of the working candidates that resolve to one public IP, at most one
\* is accepted (validated and recorded for the pool): a probe that returns a
\* known IP makes the validator skip the candidate.
C3_OneProxyPerIP ==
  \A p, q \in (proxies \cap uniqueIPs) \ (Malformed \cup Dead) :
    p # q => IPOf(p) # IPOf(q)

\* C4: a candidate address is accepted by the validators at most once: no
\* two copies of it are in flight, whether in validators' hands after a
\* passed probe, in the pool or in lanes' hands.
C4_NoDuplicate ==
  \A p \in proxies :
    Cardinality(WorkersHolding(p)) + CountIn(proxiesPool, p)
      + Cardinality(LanesHolding(p)) <= 1

\* C5: the progress counter has advanced once for every request attempt
\* made, whichever way sendRequest returned: bar equals totalRequests.
C5_ProgressPerAttempt == bar = totalRequests

\* C7: in the bounded run with numOfThreads working candidates of distinct
\* IPs, good parameters and a healthy target, at completion the issued
\* requests are the budget, the successful validations numOfThreads and the
\* Unique-IP Set has numOfThreads entries.
C7_Scenario ==
  ( /\ ~runIndefinitely
    /\ proxies = {"a1", "b1"}
    /\ mainpc = "exited" ) =>
    ( /\ totalRequests = Budget
      /\ successfulProxyConnections = numOfThreads
      /\ Cardinality(uniqueIPs) = numOfThreads )

\* C9: in fireAndForget mode no attempt records a duration or a size (the
\* lanes' slices stay empty) and the progress counter has advanced once for
\* every attempt.
C9_FireAndForget ==
  fireAndForget =>
    ( /\ \A l \in Lanes : summaries[l] = 0 /\ durations[l] = 0 /\ sizes[l] = 0
      /\ bar = totalRequests )

\* C6 as stated, in the case the claim names first: under fair scheduling,
\* a validator worker that is inside the candidate-selection loop once
\* successfulProxyConnections has reached numOfThreads (here with every
\* candidate already recorded) eventually leaves its loop, or the process
\* has ended.
C6_AllWorkersExit ==
  \A w \in Workers :
    (/\ successfulProxyConnections >= numOfThreads
     /\ wpc[w] = "pick"
     /\ proxies \subseteq uniqueIPs)
      ~> (wpc[w] = "done" \/ mainpc = "exited")

\* C6 as amended: a validator worker leaves its loop at the loop-top check
\* and nowhere else, and it does so exactly when it reads a count of at
\* least numOfThreads there; a worker that reads less goes on to pick a
\* candidate.
C6_ExitAtLoopTop ==
  [][\A w \in Workers :
       /\ (wpc[w] # "done" /\ wpc'[w] = "done") =>
            (wpc[w] = "top" /\ successfulProxyConnections >= numOfThreads)
       /\ (wpc[w] = "top" /\ wpc'[w] # "top") =>
            (wpc'[w] = "done" <=> successfulProxyConnections >= numOfThreads)]_vars

\* C6 witness: one worker has left at the loop top while another, inside
\* the candidate-selection loop, goes on although the count is reached.
C6_Witness ==
  /\ successfulProxyConnections >= numOfThreads
  /\ \E w \in Workers : wpc[w] = "done"
  /\ \E w \in Workers : wpc[w] = "pick"

\* every validator worker is at its loop top or has left the loop
WorkersAtStart == \A w \in Workers : wpc[w] \in {"top", "done"}

C11_ProbeThroughCandidate ==
  \A w \in Workers :
    wpc[w] \in {"test", "count", "store"} => wclient[w] = wproxy[w]

\* C12: createProxyClient hands out the client at the head of the shared
\* client pool whenever the pool is not empty, whatever address it is asked
\* for, so a caller asking for proxy B can get a client built for another
\* address A (the witness is such a lane).
C12_NoAffinityCheck ==
  [][/\ \A l \in Lanes :
          (tpc[l] = "GetClient" /\ tpc'[l] # "GetClient" /\ httpClientPool # <<>>) =>
            /\ tclient'[l] = Head(httpClientPool)
            /\ httpClientPool' = Tail(httpClientPool)
            /\ tpc'[l] = "SendBatch"
     /\ \A w \in Workers :
          (wpc[w] = "create" /\ wpc'[w] # "create" /\ httpClientPool # <<>>) =>
            /\ wclient'[w] = Head(httpClientPool)
            /\ httpClientPool' = Tail(httpClientPool)
            /\ wpc'[w] = "test"]_vars

\* C12 witness: a lane is about to send its batch for proxy B through a
\* client that was built for a different address A.
C12_Witness ==
  \E l \in Lanes :
    /\ tpc[l] = "SendBatch"
    /\ tproxy[l] # ""
    /\ tclient[l] # NoClient
    /\ tclient[l] # tproxy[l]

\* lane l takes a step: its position or one of its locals changes
LaneMoves(l) ==
  <<tpc[l], tproxy[l], tclient[l], requestCount[l]>>' #
    <<tpc[l], tproxy[l], tclient[l], requestCount[l]>>

\* C13: in bounded mode no step of a lane adds to the Proxy Pool (a lane
\* only takes its head); after its batch the lane adds to the issued-request
\* counter and lets go of its proxy with the pool untouched; and when
\* createProxyClient fails the lane is back at AcquireProxy without its
\* proxy, with the pool, the request counters and the progress counter
\* untouched.
C13_BoundedLaneDropsProxy ==
  [][~runIndefinitely =>
       \A l \in Lanes :
         /\ LaneMoves(l) =>
              (proxiesPool' = proxiesPool \/
                 (proxiesPool # <<>> /\ proxiesPool' = Tail(proxiesPool)))
         /\ (tpc[l] = "AddTotal" /\ tpc'[l] # "AddTotal") =>
              (tproxy'[l] = "" /\ proxiesPool' = proxiesPool)
         /\ (tpc[l] = "GetClient" /\ tpc'[l] = "AcquireProxy") =>
              /\ tproxy'[l] = ""
              /\ proxiesPool' = proxiesPool
              /\ totalRequestCount' = totalRequestCount
              /\ totalRequests' = totalRequests
              /\ bar' = bar
              /\ requestCount'[l] = 0]_vars

\* C13 witness: bounded mode; the malformed candidate and a1 were both
\* validated and put, both have since been taken by lanes and neither is in
\* the pool or in a lane's hands, yet only one batch was issued: one lane
\* completed a batch with a1 and dropped it, the other dropped the malformed
\* proxy when createProxyClient failed.
C13_Witness ==
  /\ ~runIndefinitely
  /\ {"bad", "a1"} \subseteq uniqueIPs
  /\ \A w \in Workers : wpc[w] = "done"
  /\ proxiesPool = <<>>
  /\ \A l \in Lanes : tpc[l] = "AcquireProxy" /\ tproxy[l] = ""
  /\ totalRequests = numOfRequests
  /\ totalRequestCount = numOfRequests

\* C14: in indefinite mode, under fair scheduling, a lane that has completed
\* its batch and is pushing its proxy back onto the Proxy Pool eventually
\* completes that Put (short of the bound on the requests explored, past
\* which the lanes are not followed).
C14_PutCompletes ==
  \A l \in Lanes :
    (runIndefinitely /\ tpc[l] = "PutBack")
      ~> (tpc[l] # "PutBack" \/ totalRequests >= MaxRequests)

C16_FailedValidation ==
  [][/\ \A w \in Workers :
          (wpc[w] \in {"create", "test"} /\ wpc'[w] = "pick") =>
            /\ failedProxyConnections' = failedProxyConnections + 1
            /\ successfulProxyConnections' = successfulProxyConnections
            /\ uniqueIPs' = uniqueIPs
            /\ proxiesPool' = proxiesPool
     /\ \A w \in Workers :
          (wpc[w] = "test" /\ wclient[w] \in Dead /\ wpc'[w] # "test") =>
            wpc'[w] = "pick"
     /\ failedProxyConnections' # failedProxyConnections =>
          \E w \in Workers : wpc[w] \in {"create", "test"} /\ wpc'[w] = "pick"]_vars

\* C16 witness: a worker's probe of the dead candidate has failed: the
\* failure is counted, nothing is validated, recorded or pooled, and the
\* worker is back at the choice of a candidate.
C16_Witness ==
  /\ failedProxyConnections = 1
  /\ successfulProxyConnections = 0
  /\ uniqueIPs = {}
  /\ proxiesPool = <<>>
  /\ \E w \in Workers : wpc[w] = "pick" /\ wproxy[w] \in Dead

\* validator worker w takes a step: its position or one of its locals changes
WorkerMoves(w) ==
  <<wpc[w], wproxy[w], wclient[w]>>' # <<wpc[w], wproxy[w], wclient[w]>>

\* a step of the reporter: no validator, lane or main moves
ReporterStep ==
  /\ \A w \in Workers : ~WorkerMoves(w)
  /\ \A l \in Lanes : ~LaneMoves(l)
  /\ mainpc' = mainpc

\* C17: a step of the background reporter leaves totalRequests,
\* successCount, failureCount, both proxy counters, the issued-request
\* counter, the progress counter, the Unique-IP Set and both pools as they
\* are; requestPerMinute it either leaves (the one-second tick) or sets to
\* zero (the one-minute tick), and only the reporter ever lowers it.
C17_ReporterFrame ==
  [][/\ ReporterStep =>
          /\ UNCHANGED <<totalRequests, successCount, failureCount,
                         successfulProxyConnections, failedProxyConnections,
                         totalRequestCount, bar, uniqueIPs, proxiesPool,
                         httpClientPool>>
          /\ requestPerMinute' \in {requestPerMinute, 0}
     /\ requestPerMinute' < requestPerMinute =>
          (ReporterStep /\ requestPerMinute' = 0)]_vars

\* C17 witness: requests were counted and the one-minute tick has reset
\* the per-minute counter while the totals kept their values.
C17_Witness ==
  /\ totalRequests > 0
  /\ requestPerMinute = 0
  /\ bar > 0

\* C18: a client handle is in one place at a time: the step of
\* createProxyClient that puts a newly built handle into the shared client
\* pool takes it out of its caller's hands, so that the pooled handle is not
\* also in use by the validator or lane that created it.
C18_ExclusiveHandle ==
  [][/\ \A l \in Lanes :
          (tpc[l] = "Stash" /\ httpClientPool' = Append(httpClientPool, tclient[l])) =>
            tclient'[l] # tclient[l]
     /\ \A w \in Workers :
          (wpc[w] = "stash" /\ httpClientPool' = Append(httpClientPool, wclient[w])) =>
            wclient'[w] # wclient[w]]_vars

\* C19: a caller of createProxyClient that has built a client and is about
\* to send it on the shared client pool finds a free slot there, so that
\* the send does not block.
C19_StashNeverBlocks ==
  /\ \A w \in Workers : wpc[w] = "stash" => Len(httpClientPool) < numOfThreads
  /\ \A l \in Lanes : tpc[l] = "Stash" => Len(httpClientPool) < numOfThreads

\* C20: with numOfThreads validator workers, successfulProxyConnections
\* never exceeds 2 * numOfThreads - 1: the count is below numOfThreads when
\* a worker starts a search, and each worker has at most one search under
\* way.
C20_OverValidationBound ==
  successfulProxyConnections <= 2 * numOfThreads - 1

\* C20 witness: the race has run to its bound: the workers have counted
\* 2 * numOfThreads - 1 validations.
C20_Witness ==
  /\ successfulProxyConnections = 2 * numOfThreads - 1
  /\ successfulProxyConnections > numOfThreads

\* C21: a request attempt is counted as one outcome at most: successCount
\* and failureCount together never exceed totalRequests, and no step (one
\* call of sendRequest) adds to both successCount and failureCount.
C21_OneOutcomePerAttempt ==
  /\ [](successCount + failureCount <= totalRequests)
  /\ [][~(successCount' > successCount /\ failureCount' > failureCount)]_vars

====
